---- MODULE Spec2Model ----
(***************************************************************************)
(* Real-time chat subsystem of Achievemenet_Manager: the connection        *)
(* registry (clients / online under clientsMu), the WebSocket session      *)
(* handler ChatWebSocketHandler, broadcastStatus, and the message store    *)
(* (ChatRepository.SendMessage / GetChat) behind ChatService.              *)
(***************************************************************************)
EXTENDS Integers, Sequences, FiniteSets, TLC

(* ---------------------------------------------------------------------- *)
(* Bounds of the model                                                     *)
(* ---------------------------------------------------------------------- *)
\* number of inbound frames the clients send in all (frames decoded by the read loops)
MaxEvents == 1
\* number of documents the collection holds at most (store-level specification)
MaxStored == 3
\* number of frames the clients send in all in the specification of frame bursts
MaxBurst == 2

\* the WebSocket requests (handler invocations) that ever arrive; a request's
\* number also names the conn its upgrade creates
Sessions == {1, 2, 3}
\* the requests that arrive in the specification in which clients send frames
FramedSessions == {1, 2}

\* participant identities: hex strings of user ObjectIDs carried in JWT claims
Users == {"a1", "b2"}
\* a receiver_id a client may send that is no valid ObjectID hex string
BadHex == "zz"
Receivers == Users \cup {BadHex}

NoUser == ""
Free == 0

\* no request to the history endpoint was answered yet
NoResponse == [status |-> 0, user |-> "", friend |-> "", body |-> <<>>, storeErr |-> FALSE]

VARIABLES
    clients,    \* registry: map userID -> conn, as a set of <<key, conn>> pairs
    online,     \* map userID -> bool, as a set of <<key, TRUE>> pairs
    mu,         \* clientsMu: Free or the session holding it
    pc,         \* position of each handler invocation
    token,      \* the ?token= query parameter of each request
    userID,     \* claims.UserID of each handler invocation
    wire,       \* per conn: the events passed to conn.WriteJSON, in order
    closed,     \* conns on which conn.Close() was called
    nread,      \* number of frames decoded so far by all read loops
    msg,        \* per handler: the WSMessage decoded by the current loop iteration
    newMsg,     \* per handler: the models.Message built by the current iteration
    store,      \* the "messages" collection, in insertion order
    now,        \* the server clock: each time.Now() of the repository reads a later value
    resp,       \* the last answer of the history endpoint, with the store's failure
    stalled     \* conns whose peer stopped reading: a write to them does not return

storeVars == <<store, now>>
iterVars == <<msg, newMsg>>
vars == <<clients, online, mu, pc, token, userID, wire, closed, nread, msg, newMsg, store, now, resp,
          stalled>>

(* ---------------------------------------------------------------------- *)
(* Go map operations on a map kept as a set of <<key, value>> pairs        *)
(* ---------------------------------------------------------------------- *)
MapHas(m, k) == \E p \in m : p[1] = k

MapGet(m, k) == (CHOOSE p \in m : p[1] = k)[2]

\* faulty variant: an existing entry for the key is kept
MapSet_NoReplace(m, k, v) == m \cup {<<k, v>>}

MapSet(m, k, v) == {p \in m : p[1] # k} \cup {<<k, v>>}

MapDelete(m, k) == {p \in m : p[1] # k}

(* ---------------------------------------------------------------------- *)
(* Identity verifier                                                       *)
(* ---------------------------------------------------------------------- *)
\* tokens issued by the login service, with the identity their claims carry
Issued == {[token |-> "jwt-a1", UserID |-> "a1"], [token |-> "jwt-b2", UserID |-> "b2"]}

\* what a client may put in ?token= : nothing, a token that does not verify, an issued token
Tokens == {"", "forged"} \cup {c.token : c \in Issued}

ValidateToken(tk) ==
    IF \E c \in Issued : c.token = tk
    THEN [err |-> FALSE, UserID |-> (CHOOSE c \in Issued : c.token = tk).UserID]
    ELSE [err |-> TRUE, UserID |-> NoUser]

(* ---------------------------------------------------------------------- *)
(* Wire frames (WSMessage) a client may send                               *)
(* ---------------------------------------------------------------------- *)
\* sender_id and created_at are fields a client can fill in as it likes
Frame(type, receiver, text, url, name, typing) ==
    [Type |-> type, ReceiverID |-> receiver, SenderID |-> "a1",
     Text |-> text, FileURL |-> url, FileName |-> name, Typing |-> typing,
     CreatedAt |-> "1999-01-01T00:00:00Z"]

\* the zero WSMessage of `var msg WSMessage`
NoFrame ==
    [Type |-> "", ReceiverID |-> "", SenderID |-> "", Text |-> "", FileURL |-> "",
     FileName |-> "", Typing |-> FALSE, CreatedAt |-> ""]

FileTypes == {"file", "image", "audio"}

\* the frames the read loops of the model decode
Frames ==
    {Frame("typing", r, "", "", "", ty) : r \in Users, ty \in BOOLEAN}
    \cup {Frame(tp, r, "hi", "", "", FALSE) : tp \in {"", "text"}, r \in Users}
    \cup {Frame("file", r, "", "/uploads/f.png", "f.png", FALSE) : r \in Users}
    \cup {Frame("image", "a1", "", "/uploads/f.png", "f.png", FALSE),
          Frame("audio", "b2", "", "/uploads/f.png", "f.png", FALSE),
          Frame("file", "b2", "", "", "f.png", FALSE)}
    \cup {Frame("status", "b2", "hi", "", "", FALSE), Frame("video", "a1", "", "", "", FALSE)}
    \cup {[Frame("text", "b2", "hi", "", "", FALSE) EXCEPT !.CreatedAt = "2999-12-31T23:59:59Z"]}

(* ---------------------------------------------------------------------- *)
(* models.Message and ObjectIDs                                            *)
(* ---------------------------------------------------------------------- *)
NilObjectID == "000000000000000000000000"

\* primitive.ObjectIDFromHex with the error dropped: the zero ObjectID for a bad string
ObjectIDFromHex(h) == IF h \in Users THEN h ELSE NilObjectID

\* message ids: 0 is the zero ObjectID, InsertOne generates 1, 2, ...
NoID == 0

Message(sender, receiver, type, text, url, name, createdAt) ==
    [ID |-> NoID, SenderID |-> sender, ReceiverID |-> receiver, Type |-> type,
     Text |-> text, FileURL |-> url, FileName |-> name, CreatedAt |-> createdAt]

NoMessage == Message(NilObjectID, NilObjectID, "", "", "", "", 0)

(* ---------------------------------------------------------------------- *)
(* Events written to clients                                               *)
(* ---------------------------------------------------------------------- *)
\* faulty variant: the flag of the frame is not passed on
TypingEvent_AlwaysTrue(uid, m) == [type |-> "typing", sender_id |-> uid, typing |-> TRUE]

TypingEvent(uid, m) == [type |-> "typing", sender_id |-> uid, typing |-> m.Typing]

\* faulty variant: the event names the sender the frame names
TextEvent_ClientSender(uid, m, nm) ==
    [type |-> "text", sender_id |-> m.SenderID, receiver_id |-> m.ReceiverID,
     text |-> m.Text, created_at |-> nm.CreatedAt]

TextEvent(uid, m, nm) ==
    [type |-> "text", sender_id |-> uid, receiver_id |-> m.ReceiverID,
     text |-> m.Text, created_at |-> nm.CreatedAt]

\* faulty variant: the event is built without the id of the stored message
FileEvent_NoID(uid, m, nm) ==
    [type |-> m.Type, sender_id |-> uid, receiver_id |-> m.ReceiverID,
     file_url |-> m.FileURL, file_name |-> m.FileName,
     created_at |-> nm.CreatedAt, id |-> NoID]

FileEvent(uid, m, nm) ==
    [type |-> m.Type, sender_id |-> uid, receiver_id |-> m.ReceiverID,
     file_url |-> m.FileURL, file_name |-> m.FileName,
     created_at |-> nm.CreatedAt, id |-> nm.ID]

(* ---------------------------------------------------------------------- *)
(* Transport writes                                                        *)
(* ---------------------------------------------------------------------- *)
\* faulty variant: the event overtakes the events written before it
WriteJSON_Overtake(w, c, ev) == [w EXCEPT ![c] = <<ev>> \o @]

\* conn.WriteJSON(ev) on conn c
WriteJSON(w, c, ev) == [w EXCEPT ![c] = Append(@, ev)]

\* WriteJSON on conn c returns: no write deadline is set, so a write to a conn whose
\* peer does not read blocks for as long as the peer keeps the connection
Writable(c) == c \notin stalled

StatusEvent(uid, status) == [type |-> "status", userId |-> uid, status |-> status]

\* number of registry entries whose value is conn c
Entries(m, c) == Cardinality({p \in m : p[2] = c})

\* faulty variant: the loop ends after its first write
WriteAll_FirstOnly(w, m, ev) ==
    [c \in DOMAIN w |->
        IF Entries(m, c) > 0 /\ \A p \in m : c <= p[2] THEN Append(w[c], ev) ELSE w[c]]

\* for _, conn := range clients { conn.WriteJSON(ev) }
WriteAll(w, m, ev) ==
    [c \in DOMAIN w |-> IF Entries(m, c) > 0 THEN Append(w[c], ev) ELSE w[c]]

(* ---------------------------------------------------------------------- *)
(* clientsMu                                                               *)
(* ---------------------------------------------------------------------- *)
\* faulty variant: the lock is taken without waiting for its holder
Lock_NoWait(s) == mu' = s

Lock(s) == mu = Free /\ mu' = s

Unlock(s) == mu = s /\ mu' = Free

Goto(s, from, to) == pc[s] = from /\ pc' = [pc EXCEPT ![s] = to]

(* ---------------------------------------------------------------------- *)
(* Initial state: no request has arrived                                   *)
(* ---------------------------------------------------------------------- *)
Init ==
    /\ clients = {}
    /\ online = {}
    /\ mu = Free
    /\ pc = [s \in Sessions |-> "start"]
    /\ token = [s \in Sessions |-> ""]
    /\ userID = [s \in Sessions |-> NoUser]
    /\ wire = [s \in Sessions |-> <<>>]
    /\ closed = {}
    /\ nread = 0
    /\ msg = [s \in Sessions |-> NoFrame]
    /\ newMsg = [s \in Sessions |-> NoMessage]
    /\ store = <<>>
    /\ now = 0
    /\ resp = NoResponse
    /\ stalled = {}

(* ---------------------------------------------------------------------- *)
(* ChatWebSocketHandler: handshake                                         *)
(* ---------------------------------------------------------------------- *)
\* requests are numbered in the order they arrive
Arrives(s) == pc[s] = "start" /\ (IF s = 1 THEN TRUE ELSE pc[s - 1] # "start")

\* token == "" or ValidateToken fails: 401, return
HandshakeReject(s) ==
    /\ Arrives(s)
    /\ \E tk \in Tokens :
        /\ tk = "" \/ ValidateToken(tk).err
        /\ token' = [token EXCEPT ![s] = tk]
        /\ pc' = [pc EXCEPT ![s] = "rejected"]
    /\ UNCHANGED <<resp, stalled, clients, online, mu, userID, wire, closed, nread, iterVars, storeVars>>

\* token verifies but upgrader.Upgrade fails: 400, return
HandshakeUpgradeFail(s) ==
    /\ Arrives(s)
    /\ \E tk \in Tokens :
        /\ tk # "" /\ ~ValidateToken(tk).err
        /\ token' = [token EXCEPT ![s] = tk]
        /\ pc' = [pc EXCEPT ![s] = "upgrade_failed"]
    /\ UNCHANGED <<resp, stalled, clients, online, mu, userID, wire, closed, nread, iterVars, storeVars>>

\* faulty variant: the error of ValidateToken is not checked
HandshakeAccept_ErrIgnored(s) ==
    /\ Arrives(s)
    /\ \E tk \in Tokens :
        /\ tk # "" /\ ValidateToken(tk).err
        /\ token' = [token EXCEPT ![s] = tk]
        /\ userID' = [userID EXCEPT ![s] = ValidateToken(tk).UserID]
        /\ pc' = [pc EXCEPT ![s] = "reg_lock"]
    /\ UNCHANGED <<resp, stalled, clients, online, mu, wire, closed, nread, iterVars, storeVars>>

\* token verifies and the stream is upgraded: userID := claims.UserID
HandshakeAccept(s) ==
    /\ Arrives(s)
    /\ \E tk \in Tokens :
        /\ tk # "" /\ ~ValidateToken(tk).err
        /\ token' = [token EXCEPT ![s] = tk]
        /\ userID' = [userID EXCEPT ![s] = ValidateToken(tk).UserID]
        /\ pc' = [pc EXCEPT ![s] = "reg_lock"]
    /\ UNCHANGED <<resp, stalled, clients, online, mu, wire, closed, nread, iterVars, storeVars>>

(* ---------------------------------------------------------------------- *)
(* ChatWebSocketHandler: register, announce online                         *)
(* ---------------------------------------------------------------------- *)
\* faulty variant: the handler goes on to the registry without taking the lock
RegisterLock_NoLock(s) ==
    /\ Goto(s, "reg_lock", "reg_cs")
    /\ UNCHANGED <<resp, stalled, clients, online, mu, userID, token, wire, closed, nread, iterVars, storeVars>>

RegisterLock(s) ==
    /\ Goto(s, "reg_lock", "reg_cs")
    /\ Lock(s)
    /\ UNCHANGED <<resp, stalled, clients, online, userID, token, wire, closed, nread, iterVars, storeVars>>

\* faulty variant: the handler enters its read loop without calling broadcastStatus
Register_NoAnnounce(s) ==
    /\ Goto(s, "reg_cs", "read")
    /\ clients' = MapSet(clients, userID[s], s)
    /\ online' = MapSet(online, userID[s], TRUE)
    /\ Unlock(s)
    /\ UNCHANGED <<resp, stalled, userID, token, wire, closed, nread, iterVars, storeVars>>

\* faulty variant: an identity that has an entry keeps it
Register_KeepFirst(s) ==
    /\ Goto(s, "reg_cs", "on_lock")
    /\ clients' = IF MapHas(clients, userID[s]) THEN clients ELSE MapSet(clients, userID[s], s)
    /\ online' = MapSet(online, userID[s], TRUE)
    /\ Unlock(s)
    /\ UNCHANGED <<resp, stalled, userID, token, wire, closed, nread, iterVars, storeVars>>

\* clients[userID] = conn; online[userID] = true; Unlock
Register(s) ==
    /\ Goto(s, "reg_cs", "on_lock")
    /\ clients' = MapSet(clients, userID[s], s)
    /\ online' = MapSet(online, userID[s], TRUE)
    /\ Unlock(s)
    /\ UNCHANGED <<resp, stalled, userID, token, wire, closed, nread, iterVars, storeVars>>

\* broadcastStatus: clientsMu.Lock()
BroadcastLock(s, from, to) ==
    /\ Goto(s, from, to)
    /\ Lock(s)
    /\ UNCHANGED <<resp, stalled, clients, online, userID, token, wire, closed, nread, iterVars, storeVars>>

\* broadcastStatus: write the status to every conn of the registry, deferred Unlock;
\* every WriteJSON has to return for the loop to end
BroadcastBody(s, from, to, status) ==
    /\ Goto(s, from, to)
    /\ \A p \in clients : Writable(p[2])
    /\ wire' = WriteAll(wire, clients, StatusEvent(userID[s], status))
    /\ Unlock(s)
    /\ UNCHANGED <<resp, stalled, clients, online, userID, token, closed, nread, iterVars, storeVars>>

OnlineLock(s) == BroadcastLock(s, "on_lock", "on_cs")

OnlineBroadcast(s) == BroadcastBody(s, "on_cs", "read", "online")

(* ---------------------------------------------------------------------- *)
(* ChatWebSocketHandler: read loop                                         *)
(* ---------------------------------------------------------------------- *)
\* conn.ReadJSON fails (client closed, transport error, malformed frame): break
ReadError(s) ==
    /\ Goto(s, "read", "cleanup_lock")
    /\ UNCHANGED <<resp, stalled, clients, online, mu, userID, token, wire, closed, nread, iterVars, storeVars>>

\* faulty variant: a frame no branch handles is passed on to its receiver as a status
ReadOther_Inject(s) ==
    /\ pc[s] = "read"
    /\ \E f \in Frames :
        /\ f.Type # "typing"
        /\ ~(f.Type \in FileTypes /\ f.FileURL # "")
        /\ ~(f.Type = "" \/ f.Type = "text")
        /\ wire' = IF MapHas(clients, f.ReceiverID)
                   THEN WriteJSON(wire, MapGet(clients, f.ReceiverID),
                                  StatusEvent(f.SenderID, "offline"))
                   ELSE wire
    /\ nread' = nread + 1
    /\ UNCHANGED <<resp, stalled, clients, online, mu, pc, userID, token, closed, iterVars, storeVars>>

\* a decoded frame that matches no branch: the loop reads the next frame
ReadOther(s) ==
    /\ pc[s] = "read"
    /\ \E f \in Frames :
        /\ f.Type # "typing"
        /\ ~(f.Type \in FileTypes /\ f.FileURL # "")
        /\ ~(f.Type = "" \/ f.Type = "text")
    /\ nread' = nread + 1
    /\ UNCHANGED <<resp, stalled, clients, online, mu, pc, userID, token, wire, closed, iterVars, storeVars>>

\* msg.Type == "typing"
ReadTyping(s) ==
    /\ Goto(s, "read", "typing_lock")
    /\ \E f \in Frames :
        /\ f.Type = "typing"
        /\ msg' = [msg EXCEPT ![s] = f]
    /\ nread' = nread + 1
    /\ UNCHANGED <<resp, stalled, clients, online, mu, userID, token, wire, closed, newMsg, storeVars>>

TypingLock(s) ==
    /\ Goto(s, "typing_lock", "typing_cs")
    /\ Lock(s)
    /\ UNCHANGED <<resp, stalled, clients, online, userID, token, wire, closed, nread, iterVars, storeVars>>

\* faulty variant: the typing branch continues without the Unlock
TypingForward_KeepLock(s) ==
    /\ Goto(s, "typing_cs", "read")
    /\ MapHas(clients, msg[s].ReceiverID) => Writable(MapGet(clients, msg[s].ReceiverID))
    /\ wire' = IF MapHas(clients, msg[s].ReceiverID)
               THEN WriteJSON(wire, MapGet(clients, msg[s].ReceiverID),
                              TypingEvent(userID[s], msg[s]))
               ELSE wire
    /\ mu = s
    /\ msg' = [msg EXCEPT ![s] = NoFrame]
    /\ UNCHANGED <<resp, stalled, clients, online, mu, userID, token, closed, nread, newMsg, storeVars>>

\* forward to clients[msg.ReceiverID] if present; Unlock; continue
TypingForward(s) ==
    /\ Goto(s, "typing_cs", "read")
    /\ MapHas(clients, msg[s].ReceiverID) => Writable(MapGet(clients, msg[s].ReceiverID))
    /\ wire' = IF MapHas(clients, msg[s].ReceiverID)
               THEN WriteJSON(wire, MapGet(clients, msg[s].ReceiverID),
                              TypingEvent(userID[s], msg[s]))
               ELSE wire
    /\ Unlock(s)
    /\ msg' = [msg EXCEPT ![s] = NoFrame]
    /\ UNCHANGED <<resp, stalled, clients, online, userID, token, closed, nread, newMsg, storeVars>>

\* collection.InsertOne: the document gets a fresh _id
InsertOne(st, nm) == Append(st, [nm EXCEPT !.ID = Len(st) + 1])

\* faulty variant: the repository keeps the CreatedAt its caller filled in
RepoSendMessage_KeepStamp(st, nm, t, ok) ==
    IF ok
    THEN [store |-> InsertOne(st, nm), msg |-> [nm EXCEPT !.ID = Len(st) + 1], err |-> FALSE]
    ELSE [store |-> st, msg |-> nm, err |-> TRUE]

\* ChatRepository.SendMessage(msg) at clock reading t, the insert succeeding or not:
\* msg.CreatedAt = time.Now(); on success the document is stored and msg.ID is set
RepoSendMessage(st, nm, t, ok) ==
    IF ok
    THEN [store |-> InsertOne(st, [nm EXCEPT !.CreatedAt = t]),
          msg |-> [nm EXCEPT !.CreatedAt = t, !.ID = Len(st) + 1], err |-> FALSE]
    ELSE [store |-> st, msg |-> [nm EXCEPT !.CreatedAt = t], err |-> TRUE]

\* ChatService.SendMessage
SendMessage(st, nm, t, ok) == RepoSendMessage(st, nm, t, ok)

\* the models.Message the file branch builds
NewFileMessage(uid, f, t) ==
    Message(ObjectIDFromHex(uid), ObjectIDFromHex(f.ReceiverID),
            f.Type, "", f.FileURL, f.FileName, t)

\* the models.Message the text branch builds
NewTextMessage(uid, f, t) ==
    Message(ObjectIDFromHex(uid), ObjectIDFromHex(f.ReceiverID), "text", f.Text, "", "", t)

\* file / image / audio with a URL: build newMsg, h.Service.SendMessage (result dropped)
ReadFile(s) ==
    /\ Goto(s, "read", "file_lock")
    /\ \E f \in Frames, ok \in BOOLEAN :
        /\ f.Type \in FileTypes /\ f.FileURL # ""
        /\ msg' = [msg EXCEPT ![s] = f]
        /\ LET r == SendMessage(store, NewFileMessage(userID[s], f, now), now + 1, ok)
           IN  /\ newMsg' = [newMsg EXCEPT ![s] = r.msg]
               /\ store' = r.store
        /\ now' = now + 1
    /\ nread' = nread + 1
    /\ UNCHANGED <<resp, stalled, clients, online, mu, userID, token, wire, closed>>

\* faulty variant: the handler leaves the loop when SendMessage returns an error
ReadText_AbortOnError(s) ==
    /\ pc[s] = "read"
    /\ \E f \in Frames, ok \in BOOLEAN :
        /\ f.Type = "" \/ f.Type = "text"
        /\ LET r == SendMessage(store, NewTextMessage(userID[s], f, now), now + 1, ok)
           IN  /\ store' = r.store
               /\ IF r.err
                  THEN /\ pc' = [pc EXCEPT ![s] = "cleanup_lock"]
                       /\ UNCHANGED <<resp, stalled, msg, newMsg>>
                  ELSE /\ pc' = [pc EXCEPT ![s] = "text_lock"]
                       /\ msg' = [msg EXCEPT ![s] = f]
                       /\ newMsg' = [newMsg EXCEPT ![s] = r.msg]
        /\ now' = now + 1
    /\ nread' = nread + 1
    /\ UNCHANGED <<resp, stalled, clients, online, mu, userID, token, wire, closed>>

\* text, or no kind: build newMsg, h.Service.SendMessage (result dropped)
ReadText(s) ==
    /\ Goto(s, "read", "text_lock")
    /\ \E f \in Frames, ok \in BOOLEAN :
        /\ f.Type = "" \/ f.Type = "text"
        /\ msg' = [msg EXCEPT ![s] = f]
        /\ LET r == SendMessage(store, NewTextMessage(userID[s], f, now), now + 1, ok)
           IN  /\ newMsg' = [newMsg EXCEPT ![s] = r.msg]
               /\ store' = r.store
        /\ now' = now + 1
    /\ nread' = nread + 1
    /\ UNCHANGED <<resp, stalled, clients, online, mu, userID, token, wire, closed>>

FileLock(s) ==
    /\ Goto(s, "file_lock", "file_cs")
    /\ Lock(s)
    /\ UNCHANGED <<resp, stalled, clients, online, userID, token, wire, closed, nread, iterVars, storeVars>>

\* faulty variant: the handler drops the event after the Append and reads on
TextLock_GiveUp(s) ==
    /\ Goto(s, "text_lock", "read")
    /\ msg' = [msg EXCEPT ![s] = NoFrame]
    /\ newMsg' = [newMsg EXCEPT ![s] = NoMessage]
    /\ UNCHANGED <<resp, stalled, clients, online, mu, userID, token, wire, closed, nread, storeVars>>

TextLock(s) ==
    /\ Goto(s, "text_lock", "text_cs")
    /\ Lock(s)
    /\ UNCHANGED <<resp, stalled, clients, online, userID, token, wire, closed, nread, iterVars, storeVars>>

\* faulty variant: the echo is written only when the receiver was found
ForwardAndEcho_EchoIfOnline(w, m, receiver, conn, ev) ==
    IF MapHas(m, receiver) THEN WriteJSON(WriteJSON(w, MapGet(m, receiver), ev), conn, ev) ELSE w

\* forward ev to clients[receiver] if present, then write it to the session's own conn
ForwardAndEcho(w, m, receiver, conn, ev) ==
    WriteJSON(IF MapHas(m, receiver) THEN WriteJSON(w, MapGet(m, receiver), ev) ELSE w,
              conn, ev)

FileDispatch(s) ==
    /\ Goto(s, "file_cs", "read")
    /\ Writable(s)
    /\ MapHas(clients, msg[s].ReceiverID) => Writable(MapGet(clients, msg[s].ReceiverID))
    /\ wire' = ForwardAndEcho(wire, clients, msg[s].ReceiverID, s,
                              FileEvent(userID[s], msg[s], newMsg[s]))
    /\ Unlock(s)
    /\ msg' = [msg EXCEPT ![s] = NoFrame]
    /\ newMsg' = [newMsg EXCEPT ![s] = NoMessage]
    /\ UNCHANGED <<resp, stalled, clients, online, userID, token, closed, nread, storeVars>>

TextDispatch(s) ==
    /\ Goto(s, "text_cs", "read")
    /\ Writable(s)
    /\ MapHas(clients, msg[s].ReceiverID) => Writable(MapGet(clients, msg[s].ReceiverID))
    /\ wire' = ForwardAndEcho(wire, clients, msg[s].ReceiverID, s,
                              TextEvent(userID[s], msg[s], newMsg[s]))
    /\ Unlock(s)
    /\ msg' = [msg EXCEPT ![s] = NoFrame]
    /\ newMsg' = [newMsg EXCEPT ![s] = NoMessage]
    /\ UNCHANGED <<resp, stalled, clients, online, userID, token, closed, nread, storeVars>>

(* ---------------------------------------------------------------------- *)
(* ChatWebSocketHandler: deferred cleanup                                  *)
(* ---------------------------------------------------------------------- *)
CleanupLock(s) ==
    /\ Goto(s, "cleanup_lock", "cleanup_cs")
    /\ Lock(s)
    /\ UNCHANGED <<resp, stalled, clients, online, userID, token, wire, closed, nread, iterVars, storeVars>>

\* faulty variant: a missing entry is treated as an error and the cleanup stops
Deregister_RequirePresent(s) ==
    /\ pc[s] = "cleanup_cs"
    /\ pc' = [pc EXCEPT ![s] = IF MapHas(clients, userID[s]) THEN "off_lock" ELSE "done"]
    /\ clients' = MapDelete(clients, userID[s])
    /\ online' = MapDelete(online, userID[s])
    /\ Unlock(s)
    /\ UNCHANGED <<resp, stalled, userID, token, wire, closed, nread, iterVars, storeVars>>

\* faulty variant: the online map is not cleaned up
Deregister_KeepOnline(s) ==
    /\ Goto(s, "cleanup_cs", "off_lock")
    /\ clients' = MapDelete(clients, userID[s])
    /\ Unlock(s)
    /\ UNCHANGED <<resp, stalled, online, userID, token, wire, closed, nread, iterVars, storeVars>>

\* delete(clients, userID); delete(online, userID); Unlock
Deregister(s) ==
    /\ Goto(s, "cleanup_cs", "off_lock")
    /\ clients' = MapDelete(clients, userID[s])
    /\ online' = MapDelete(online, userID[s])
    /\ Unlock(s)
    /\ UNCHANGED <<resp, stalled, userID, token, wire, closed, nread, iterVars, storeVars>>

\* faulty variant: the cleanup goes from the deregistration straight to the close
OfflineLock_SkipBroadcast(s) ==
    /\ Goto(s, "off_lock", "closing")
    /\ UNCHANGED <<resp, stalled, clients, online, mu, userID, token, wire, closed, nread, iterVars, storeVars>>

OfflineLock(s) == BroadcastLock(s, "off_lock", "off_cs")

\* faulty variant: the deferred cleanup announces the wrong status
OfflineBroadcast_WrongStatus(s) == BroadcastBody(s, "off_cs", "closing", "online")

OfflineBroadcast(s) == BroadcastBody(s, "off_cs", "closing", "offline")

\* conn.Close(): the connection is gone, later writes to it fail at once
Close(s) ==
    /\ Goto(s, "closing", "done")
    /\ closed' = closed \cup {s}
    /\ stalled' = stalled \ {s}
    /\ UNCHANGED <<resp, clients, online, mu, userID, token, wire, nread, iterVars, storeVars>>

(* ---------------------------------------------------------------------- *)
\* the system with clients that send frames, MaxEvents frames in all
Next ==
    \E s \in FramedSessions :
        \/ HandshakeReject(s)
        \/ HandshakeUpgradeFail(s)
        \/ HandshakeAccept(s)
        \/ RegisterLock(s)
        \/ Register(s)
        \/ OnlineLock(s)
        \/ OnlineBroadcast(s)
        \/ ReadError(s)
        \/ nread < MaxEvents /\ ReadOther(s)
        \/ nread < MaxEvents /\ ReadTyping(s)
        \/ TypingLock(s)
        \/ TypingForward(s)
        \/ nread < MaxEvents /\ ReadFile(s)
        \/ FileLock(s)
        \/ FileDispatch(s)
        \/ nread < MaxEvents /\ ReadText(s)
        \/ TextLock(s)
        \/ TextDispatch(s)
        \/ CleanupLock(s)
        \/ Deregister(s)
        \/ OfflineLock(s)
        \/ OfflineBroadcast(s)
        \/ Close(s)

Spec == Init /\ [][Next]_vars

\* the session lifecycle alone: clients connect and disconnect, no frame is sent
NextLife ==
    \E s \in Sessions :
        \/ HandshakeReject(s)
        \/ HandshakeUpgradeFail(s)
        \/ HandshakeAccept(s)
        \/ RegisterLock(s)
        \/ Register(s)
        \/ OnlineLock(s)
        \/ OnlineBroadcast(s)
        \/ ReadError(s)
        \/ CleanupLock(s)
        \/ Deregister(s)
        \/ OfflineLock(s)
        \/ OfflineBroadcast(s)
        \/ Close(s)

SpecLife == Init /\ [][NextLife]_vars

\* the frames of a burst: typing and text, all for participant b2; two text frames that differ in
\* nothing but the created_at their client filled in
BurstFrames ==
    {Frame("typing", "b2", "", "", "", TRUE),
     Frame("text", "b2", "hi", "", "", FALSE),
     [Frame("text", "b2", "hi", "", "", FALSE) EXCEPT !.CreatedAt = "2999-12-31T23:59:59Z"]}

\* the system with clients that send several frames, MaxBurst frames in all
NextBurst ==
    \E s \in FramedSessions :
        \/ HandshakeReject(s)
        \/ HandshakeUpgradeFail(s)
        \/ HandshakeAccept(s)
        \/ RegisterLock(s)
        \/ Register(s)
        \/ OnlineLock(s)
        \/ OnlineBroadcast(s)
        \/ ReadError(s)
        \/ nread < MaxBurst /\ ReadOther(s)
        \/ nread < MaxBurst /\ ReadTyping(s) /\ msg'[s] \in BurstFrames
        \/ TypingLock(s)
        \/ TypingForward(s)
        \/ nread < MaxBurst /\ ReadText(s) /\ msg'[s] \in BurstFrames
        \/ TextLock(s)
        \/ TextDispatch(s)
        \/ CleanupLock(s)
        \/ Deregister(s)
        \/ OfflineLock(s)
        \/ OfflineBroadcast(s)
        \/ Close(s)

SpecBurst == Init /\ [][NextBurst]_vars

(* ---------------------------------------------------------------------- *)
(* Clients that stop reading                                               *)
(* ---------------------------------------------------------------------- *)
\* the peer of an upgraded conn stops reading and the send buffers fill up
Stall(s) ==
    /\ pc[s] \notin {"start", "rejected", "upgrade_failed", "done"}
    /\ s \notin stalled
    /\ stalled' = stalled \cup {s}
    /\ UNCHANGED <<resp, clients, online, mu, pc, userID, token, wire, closed, nread, iterVars, storeVars>>

\* broadcastStatus reaches a conn whose WriteJSON does not return: the conns ranged
\* over before it (map order: any of the others) got the status, the lock stays held
BroadcastBlocks(s, from, to, status) ==
    /\ Goto(s, from, to)
    /\ \E p \in clients : ~Writable(p[2])
    /\ \E before \in SUBSET {p[2] : p \in clients} :
        /\ \A c \in before : Writable(c)
        /\ wire' = [c \in DOMAIN wire |->
                        IF c \in before THEN Append(wire[c], StatusEvent(userID[s], status))
                        ELSE wire[c]]
    /\ UNCHANGED <<resp, stalled, clients, online, mu, userID, token, closed, nread, iterVars, storeVars>>

OnlineBlocks(s) == BroadcastBlocks(s, "on_cs", "on_blocked", "online")

OfflineBlocks(s) == BroadcastBlocks(s, "off_cs", "off_blocked", "offline")

\* receiverConn.WriteJSON does not return, or it returns (or the receiver has no
\* entry) and the echo on the session's own conn does not return; the lock stays held
DirectBlocks(s, from, to, ev, echo) ==
    /\ Goto(s, from, to)
    /\ LET b == msg[s].ReceiverID IN
        \/ /\ MapHas(clients, b) /\ ~Writable(MapGet(clients, b))
           /\ wire' = wire
        \/ /\ echo /\ ~Writable(s)
           /\ MapHas(clients, b) => Writable(MapGet(clients, b))
           /\ wire' = IF MapHas(clients, b) THEN WriteJSON(wire, MapGet(clients, b), ev)
                      ELSE wire
    /\ UNCHANGED <<resp, stalled, clients, online, mu, userID, token, closed, nread, iterVars, storeVars>>

TypingBlocks(s) ==
    DirectBlocks(s, "typing_cs", "typing_blocked", TypingEvent(userID[s], msg[s]), FALSE)

FileBlocks(s) ==
    DirectBlocks(s, "file_cs", "file_blocked", FileEvent(userID[s], msg[s], newMsg[s]), TRUE)

TextBlocks(s) ==
    DirectBlocks(s, "text_cs", "text_blocked", TextEvent(userID[s], msg[s], newMsg[s]), TRUE)

\* the steps of handler s that need nothing from its client: the Go scheduler runs
\* every goroutine that can run
Handler(s) ==
    \/ RegisterLock(s)
    \/ Register(s)
    \/ OnlineLock(s)
    \/ OnlineBroadcast(s)
    \/ TypingLock(s)
    \/ TypingForward(s)
    \/ FileLock(s)
    \/ FileDispatch(s)
    \/ TextLock(s)
    \/ TextDispatch(s)
    \/ CleanupLock(s)
    \/ Deregister(s)
    \/ OfflineLock(s)
    \/ OfflineBroadcast(s)
    \/ Close(s)

\* the system with clients that send frames and may stop reading
NextStall ==
    \/ Next
    \/ \E s \in FramedSessions :
        \/ Stall(s)
        \/ OnlineBlocks(s)
        \/ OfflineBlocks(s)
        \/ TypingBlocks(s)
        \/ FileBlocks(s)
        \/ TextBlocks(s)

SpecStall ==
    Init /\ [][NextStall]_vars /\ \A s \in FramedSessions : WF_vars(Handler(s))

(* ---------------------------------------------------------------------- *)
(* History: GetChatHistory -> ChatService.GetChat -> ChatRepository.GetChat *)
(* ---------------------------------------------------------------------- *)
\* faulty variant: the filter has only its first clause
Matches_OneDirection(m, uid, fid) == m.SenderID = uid /\ m.ReceiverID = fid

\* the $or filter of GetChat
Matches(m, uid, fid) ==
    \/ m.SenderID = uid /\ m.ReceiverID = fid
    \/ m.SenderID = fid /\ m.ReceiverID = uid

\* the documents Find selects, as indices into the collection
Selected(st, uid, fid) == {k \in 1..Len(st) : Matches(st[k], uid, fid)}

\* SetSort(created_at, 1): every order of the selected documents that ascends
\* by created_at (documents with equal created_at come in any order)
SortedCursors(st, sel) ==
    {c \in [1..Cardinality(sel) -> sel] :
        /\ \A i, j \in 1..Cardinality(sel) : i # j => c[i] # c[j]
        /\ \A i, j \in 1..Cardinality(sel) : i < j => st[c[i]].CreatedAt <= st[c[j]].CreatedAt}

\* ChatRepository.GetChat. storeErr tells whether the store failed during the query:
\*  - Find or Decode fails: the error is returned;
\*  - the cursor is read to its end: the decoded documents in cursor order;
\*  - cursor.Next fails on fetching a batch after the first (which holds at least one
\*    document): Next returns false, the loop ends, cursor.Err() is not looked at and
\*    the documents decoded so far are returned without an error
RepoGetChat(st, uid, fid) ==
    {[err |-> TRUE, messages |-> <<>>, storeErr |-> TRUE]}
    \cup {[err |-> FALSE, storeErr |-> FALSE,
           messages |-> [i \in 1..Cardinality(Selected(st, uid, fid)) |-> st[c[i]]]] :
            c \in SortedCursors(st, Selected(st, uid, fid))}
    \cup {[err |-> FALSE, storeErr |-> TRUE, messages |-> [i \in 1..n |-> st[c[i]]]] :
            c \in SortedCursors(st, Selected(st, uid, fid)),
            n \in 1..(Cardinality(Selected(st, uid, fid)) - 1)}

\* ChatService.GetChat
GetChat(st, user, friendID) ==
    RepoGetChat(st, ObjectIDFromHex(user), ObjectIDFromHex(friendID))

\* GetChatHistory without claims in the request context: 401
HistoryUnauthorized ==
    /\ resp' = [status |-> 401, user |-> "", friend |-> "", body |-> <<>>, storeErr |-> FALSE]
    /\ UNCHANGED <<stalled, clients, online, mu, pc, token, userID, wire, closed, nread, iterVars, storeVars>>

\* GetChatHistory of an authenticated participant: 500 on error, else the messages
GetChatHistory ==
    /\ \E user \in Users, friendId \in Receivers :
        \E r \in GetChat(store, user, friendId) :
            resp' = IF r.err
                    THEN [status |-> 500, user |-> user, friend |-> friendId, body |-> <<>>,
                          storeErr |-> r.storeErr]
                    ELSE [status |-> 200, user |-> user, friend |-> friendId, body |-> r.messages,
                          storeErr |-> r.storeErr]
    /\ UNCHANGED <<stalled, clients, online, mu, pc, token, userID, wire, closed, nread, iterVars, storeVars>>

\* the text frames whose persistence the store-level specification follows
StoreFrames == {Frame("text", r, "hi", "", "", FALSE) : r \in Receivers}

\* a session of participant uid persists a frame: its SendMessage reads the clock
\* at t; concurrent sessions reach InsertOne in any order, so a document may carry
\* an earlier reading than the documents inserted before it (here: the latest
\* reading or the earliest one)
Persist ==
    /\ Len(store) < MaxStored
    /\ \E uid \in Users, f \in StoreFrames, t \in {1, Len(store) + 1}, ok \in BOOLEAN :
        store' = SendMessage(store, NewTextMessage(uid, f, t), t, ok).store
    /\ UNCHANGED <<stalled, clients, online, mu, pc, token, userID, wire, closed, nread, iterVars, now, resp>>

NextRepo == Persist \/ GetChatHistory \/ HistoryUnauthorized

SpecRepo == Init /\ [][NextRepo]_vars

(* ====================================================================== *)
(* Properties                                                              *)
(* ====================================================================== *)
\* the events a step appends to conn c
Written(c) == SubSeq(wire'[c], Len(wire[c]) + 1, Len(wire'[c]))

\* a step appends nothing but the events of seq to conn c
Appends(c, seq) == wire'[c] = wire[c] \o seq

Registered(u) == \E p \in clients : p[1] = u

\* the transport Lookup(u) returns
ConnOf(u) == (CHOOSE p \in clients : p[1] = u)[2]

InLoop == {"read", "typing_lock", "typing_cs", "file_lock", "file_cs", "text_lock", "text_cs"}

Terminated == {"closing", "done"}

\* the step in which session s performs its offline fan-out
OfflineFanout(s) == pc[s] = "off_cs" /\ pc'[s] # "off_cs"

\* the step in which session s performs its online fan-out
OnlineFanout(s) == pc[s] = "on_cs" /\ pc'[s] # "on_cs"

(* C1: a session that left its read loop reaches the end of its cleanup only     *)
(* through the offline fan-out, and that fan-out appends status{p, offline} to   *)
(* the transport of every identity that has a registry entry at that moment.     *)
C1_OfflineFanout ==
    [][\A s \in Sessions :
        /\ (pc'[s] \in Terminated /\ pc[s] \notin Terminated) => OfflineFanout(s)
        /\ (pc[s] \in InLoop /\ pc'[s] \notin InLoop) => pc'[s] = "cleanup_lock"
        /\ OfflineFanout(s) =>
              \A u \in Users : Registered(u) =>
                  Appends(ConnOf(u), <<[type |-> "status", userId |-> userID[s],
                                        status |-> "offline"]>>)
      ]_vars

\* witness of C1: a terminated session, and two registered participants whose
\* transports both received that session's offline status last
C1_Witness ==
    \E s \in Sessions :
        /\ pc[s] = "closing"
        /\ Cardinality(clients) = 2
        /\ \A p \in clients :
            /\ p[2] # s /\ wire[p[2]] # <<>>
            /\ wire[p[2]][Len(wire[p[2]])]
                  = [type |-> "status", userId |-> userID[s], status |-> "offline"]

(* C2: a session enters its read loop only through its online fan-out, frames   *)
(* are decoded only inside the loop, and the fan-out appends status{p, online}  *)
(* to the transport of every other identity registered at that moment.          *)
C2_OnlineFanout ==
    [][\A s \in Sessions :
        /\ (pc'[s] \in InLoop /\ pc[s] \notin InLoop) => OnlineFanout(s)
        /\ (msg'[s] # msg[s] \/ (nread' # nread /\ pc[s] = "read")) => pc[s] \in InLoop
        /\ OnlineFanout(s) =>
              \A u \in Users : (Registered(u) /\ u # userID[s]) =>
                  Appends(ConnOf(u), <<[type |-> "status", userId |-> userID[s],
                                        status |-> "online"]>>)
      ]_vars

\* witness of C2: a session in its loop that has decoded nothing yet, and another
\* registered participant whose transport holds that session's online status
C2_Witness ==
    \E s \in Sessions, u \in Users :
        /\ pc[s] = "read" /\ nread = 0 /\ userID[s] # u
        /\ Registered(u) /\ ConnOf(u) # s
        /\ wire[ConnOf(u)] # <<>>
        /\ wire[ConnOf(u)][Len(wire[ConnOf(u)])]
              = [type |-> "status", userId |-> userID[s], status |-> "online"]

\* the step in which session s dispatches the text event of its current frame
TextDispatched(s) == pc[s] = "text_cs" /\ pc'[s] # "text_cs"

\* the text event session s owes its current frame
TextOf(s) ==
    [type |-> "text", sender_id |-> userID[s], receiver_id |-> msg[s].ReceiverID,
     text |-> msg[s].Text, created_at |-> newMsg[s].CreatedAt]

\* e occurs in seq
Occurs(e, seq) == \E i \in 1..Len(seq) : seq[i] = e

(* C3: when a session of a dispatches a text event for receiver b, the event is  *)
(* written to the transport Lookup(b) returns if and only if b has a registry    *)
(* entry at that moment (no transport but the sender's own gets it otherwise),   *)
(* and it is written to the sending session's own transport in every case.      *)
C3_TextDelivery ==
    [][\A s \in Sessions : TextDispatched(s) =>
        LET b == msg[s].ReceiverID IN
        /\ Registered(b) => Occurs(TextOf(s), Written(ConnOf(b)))
        /\ ~Registered(b) => \A c \in Sessions \ {s} : Written(c) = <<>>
        /\ \A c \in Sessions : (c # s /\ (~Registered(b) \/ ConnOf(b) # c)) => Written(c) = <<>>
        /\ Written(s) # <<>> /\ Written(s)[Len(Written(s))] = TextOf(s)
      ]_vars

\* witness of C3: a text event was echoed to its sender while the receiver had no
\* registry entry and received nothing
C3_Witness ==
    \E s \in Sessions :
        /\ pc[s] = "read" /\ wire[s] # <<>>
        /\ LET e == wire[s][Len(wire[s])] IN
            /\ e.type = "text" /\ e.sender_id = userID[s]
            /\ e.receiver_id # userID[s]
            /\ ~Registered(e.receiver_id)
            /\ \A c \in Sessions \ {s} : ~Occurs(e, wire[c])
\* the step in which session s builds a Stored Message and attempts the Append
Persisting(s) == pc[s] = "read" /\ pc'[s] # "read" /\ now' # now

\* the step in which session s dispatches the file event of its current frame
FileDispatched(s) == pc[s] = "file_cs" /\ pc'[s] # "file_cs"

\* the file event session s owes its current frame, carrying the given id
FileOf(s, id) ==
    [type |-> msg[s].Type, sender_id |-> userID[s], receiver_id |-> msg[s].ReceiverID,
     file_url |-> msg[s].FileURL, file_name |-> msg[s].FileName,
     created_at |-> newMsg[s].CreatedAt, id |-> id]

\* what a dispatch of ev by session s to receiver b appends to conn c
Delivery(s, b, c, ev) ==
    (IF Registered(b) /\ ConnOf(b) = c THEN <<ev>> ELSE <<>>)
        \o (IF c = s THEN <<ev>> ELSE <<>>)

\* the Append of the current frame of s failed: newMsg kept the zero id
AppendFailed(s) == newMsg[s].ID = NoID

(* C4 (as amended): a failed Append stores nothing and leaves the session in its *)
(* read loop; the event is then forwarded to the receiver if registered and      *)
(* echoed to the sender as after a successful Append, and the session reads on;  *)
(* a file/image/audio event carries the zero id in place of a store-assigned id. *)
C4_AppendFailure ==
    [][\A s \in Sessions :
        /\ Persisting(s) =>
              /\ pc'[s] \in InLoop
              /\ IF store' = store
                 THEN newMsg'[s].ID = NoID
                 ELSE newMsg'[s].ID # NoID /\ store' = Append(store, newMsg'[s])
        /\ (TextDispatched(s) /\ AppendFailed(s)) =>
              /\ pc'[s] = "read"
              /\ \A c \in Sessions : Written(c) = Delivery(s, msg[s].ReceiverID, c, TextOf(s))
        /\ (FileDispatched(s) /\ AppendFailed(s)) =>
              /\ pc'[s] = "read"
              /\ \A c \in Sessions :
                    Written(c) = Delivery(s, msg[s].ReceiverID, c, FileOf(s, NoID))
      ]_vars

(* C4 (original): the events dispatched after a failed Append are exactly those  *)
(* of a successful one, so a file event carries the id of a Stored Message.      *)
C4_Original ==
    [][\A s \in Sessions : FileDispatched(s) =>
          \A c \in Sessions : \A i \in 1..Len(Written(c)) :
              \E k \in 1..Len(store) : store[k].ID = Written(c)[i].id
      ]_vars

\* witness of C4: a text event that reached its registered receiver and its sender
\* although no Stored Message carries its timestamp, the sender reading on
C4_Witness ==
    \E s \in Sessions :
        /\ pc[s] = "read" /\ wire[s] # <<>>
        /\ LET e == wire[s][Len(wire[s])] IN
            /\ e.type = "text" /\ e.sender_id = userID[s]
            /\ \A k \in 1..Len(store) : store[k].CreatedAt # e.created_at
            /\ Registered(e.receiver_id) /\ ConnOf(e.receiver_id) # s
            /\ Occurs(e, wire[ConnOf(e.receiver_id)])

\* the step in which session s handles the typing frame it decoded
TypingForwarded(s) == pc[s] = "typing_cs" /\ pc'[s] # "typing_cs"

\* the step in which session s decodes a typing frame
TypingDecoded(s) == pc[s] = "read" /\ pc'[s] = "typing_lock"

\* the typing event session s owes its current frame
TypingOf(s) == [type |-> "typing", sender_id |-> userID[s], typing |-> msg[s].Typing]

\* the step in which the history endpoint answers
Answering == resp' # resp

\* the participants a Stored Message is between
PairOf(m) == {m.SenderID, m.ReceiverID}

C6_Typing ==
    [][\A s \in Sessions :
        /\ TypingDecoded(s) => (store' = store /\ wire' = wire)
        /\ TypingForwarded(s) =>
              LET b == msg[s].ReceiverID IN
              /\ store' = store
              /\ \A c \in Sessions :
                    Written(c) = IF Registered(b) /\ ConnOf(b) = c
                                 THEN <<TypingOf(s)>> ELSE <<>>
              /\ Written(s) # <<>> => (b = userID[s] /\ ConnOf(b) = s)
      ]_vars

(* C6 (original): handling a typing frame never writes to the sender's own       *)
(* transport.                                                                    *)
C6_Original ==
    [][\A s \in Sessions : TypingForwarded(s) => Written(s) = <<>>]_vars

\* witness of C6: the receiver's transport last got a typing event with the flag
\* off from another participant, whose own transport holds no typing event, and
\* nothing is stored
C6_Witness ==
    \E s \in Sessions, u \in Users :
        /\ pc[s] = "read" /\ userID[s] # u /\ store = <<>>
        /\ Registered(u) /\ ConnOf(u) # s /\ wire[ConnOf(u)] # <<>>
        /\ wire[ConnOf(u)][Len(wire[ConnOf(u)])]
              = [type |-> "typing", sender_id |-> userID[s], typing |-> FALSE]
        /\ \A i \in 1..Len(wire[s]) : wire[s][i].type # "typing"
(* C7: in every reachable state the registry holds at most one transport per    *)
(* participant identity, so Lookup returns at most one channel.                  *)
C7_RegistryExclusive ==
    \A u \in Users \cup {NoUser} : Cardinality({p \in clients : p[1] = u}) <= 1

\* witness of C7: two live sessions of one participant, the registry holding the
\* transport of the later one only
C7_Witness ==
    /\ pc[1] \in InLoop /\ pc[2] \in InLoop
    /\ userID[1] = userID[2]
    /\ clients = {<<userID[1], 2>>}

\* the step in which session s removes its identity from the registry
Deregistering(s) == pc[s] = "cleanup_cs" /\ pc'[s] # "cleanup_cs"

(* C8: deregistering an identity that has no entry raises no error (the cleanup  *)
(* goes on to its offline fan-out) and leaves both maps unchanged; in every case *)
(* only the entry of that identity goes, and deregistering it again changes      *)
(* nothing more.                                                                 *)
C8_DeregisterIdempotent ==
    [][\A s \in Sessions : Deregistering(s) =>
        /\ pc'[s] = "off_lock"
        /\ ~Registered(userID[s]) => (clients' = clients /\ online' = online)
        /\ clients' = {p \in clients : p[1] # userID[s]}
        /\ MapDelete(clients', userID[s]) = clients'
        /\ MapDelete(online', userID[s]) = online'
      ]_vars

\* witness of C8: two sessions of one participant have both deregistered, so the
\* later of the two found no entry, and another step of its cleanup follows
C8_Witness ==
    /\ userID[1] = userID[2] /\ userID[1] # NoUser
    /\ pc[1] \in {"off_lock", "off_cs", "closing", "done"}
    /\ pc[2] \in {"off_lock", "off_cs", "closing", "done"}
    /\ clients = {}

\* the identities recorded as online
OnlineSet == {p[1] : p \in {q \in online : q[2] = TRUE}}

(* C9: in every reachable state the identities recorded as online are exactly    *)
(* the identities that have a registry entry.                                    *)
C9_PresenceIsRegistry == OnlineSet = {p[1] : p \in clients}

\* witness of C9: one participant has deregistered while another is registered
C9_Witness ==
    \E s \in Sessions :
        /\ pc[s] \in Terminated
        /\ ~Registered(userID[s])
        /\ clients # {} /\ OnlineSet # {}

\* the step in which the request of session s is answered or accepted
Handshaking(s) == pc[s] = "start" /\ pc'[s] # "start"

(* C10: a request whose token is missing or does not verify is refused: it ends  *)
(* rejected for good, the registry, the online set, the lock and every transport *)
(* are left unchanged, and it never reaches a read loop.                         *)
C10_RejectedHandshake ==
    [][\A s \in Sessions :
        /\ (Handshaking(s) /\ (token'[s] = "" \/ ValidateToken(token'[s]).err)) =>
              /\ pc'[s] = "rejected"
              /\ UNCHANGED <<clients, online, mu, wire, userID, nread, store>>
        /\ pc[s] = "rejected" => pc'[s] = "rejected"
      ]_vars

\* witness of C10: a request with a token that does not verify was rejected while
\* another participant is registered, whose transport received nothing about it
C10_Witness ==
    \E s, r \in Sessions :
        /\ pc[s] = "rejected" /\ token[s] = "forged"
        /\ pc[r] = "read" /\ clients = {<<userID[r], r>>}
        /\ wire[r] = <<[type |-> "status", userId |-> userID[r], status |-> "online"]>>
        /\ wire[s] = <<>>

(* C11 (as stated): in every reachable state, every session whose read loop is  *)
(* still running has a registry entry for its identity.                          *)
C11_ActiveRegistered ==
    \A s \in Sessions : pc[s] \in InLoop => Registered(userID[s])

\* the positions of the deferred cleanup, in the order the handler goes through them
CleanupOrder == <<"cleanup_lock", "cleanup_cs", "off_lock", "off_cs", "closing", "done">>

\* the position of p in the cleanup, 0 before the cleanup
CleanupStage(p) ==
    IF \E i \in 1..Len(CleanupOrder) : CleanupOrder[i] = p
    THEN CHOOSE i \in 1..Len(CleanupOrder) : CleanupOrder[i] = p
    ELSE 0

\* the step in which session s installs its registry entry
Registering(s) == pc[s] = "reg_cs" /\ pc'[s] # "reg_cs"

(* C12: a failed read ends the loop for good (no frame is read by that session   *)
(* again) and starts the cleanup, whose steps come in this order only: the       *)
(* identity's registry entry is removed, then the offline status is fanned out,  *)
(* then the transport is closed; once removed, the identity has no entry until a *)
(* session of that identity becomes Active by registering.                       *)
C12_Termination ==
    [][\A s \in Sessions :
        /\ (pc[s] = "read" /\ pc'[s] \notin InLoop) => pc'[s] = "cleanup_lock"
        /\ CleanupStage(pc[s]) > 0 =>
              /\ CleanupStage(pc'[s]) \in {CleanupStage(pc[s]), CleanupStage(pc[s]) + 1}
              /\ msg'[s] = msg[s]
        /\ Deregistering(s) => (~Registered(userID[s]))'
        /\ OfflineFanout(s) => (pc'[s] = "closing" /\ s \notin closed')
        /\ (s \in closed') => (pc'[s] = "done" /\ (s \in closed \/ pc[s] = "closing"))
        /\ \A u \in Users : (~Registered(u) /\ Registered(u)') =>
              \E r \in Sessions : Registering(r) /\ userID[r] = u
      ]_vars

\* witness of C12: a session went through its whole cleanup and its transport is
\* closed, its identity has no entry, and a participant that is still registered
\* received the offline status
C12_Witness ==
    \E s, r \in Sessions :
        /\ pc[s] = "done" /\ s \in closed /\ userID[s] # NoUser
        /\ ~Registered(userID[s])
        /\ pc[r] = "read" /\ Registered(userID[r]) /\ ConnOf(userID[r]) = r
        /\ Occurs([type |-> "status", userId |-> userID[s], status |-> "offline"], wire[r])

\* the positions in which a handler is between the start and the end of a
\* registration, a fan-out, a delivery or a cleanup
Busy ==
    {"reg_lock", "reg_cs", "on_lock", "on_cs", "on_blocked",
     "typing_lock", "typing_cs", "typing_blocked", "file_lock", "file_cs", "file_blocked",
     "text_lock", "text_cs", "text_blocked",
     "cleanup_lock", "cleanup_cs", "off_lock", "off_cs", "off_blocked", "closing"}

\* the step in which session s takes a frame that one of its branches handles
Decoding(s) == pc[s] = "read" /\ pc'[s] \in {"typing_lock", "file_lock", "text_lock"}

\* the step in which session s writes the event of its current frame
Dispatching(s) == pc[s] \in {"typing_cs", "file_cs", "text_cs"} /\ pc'[s] = "read"

\* participant u has had one session only
SingleSession(u) == Cardinality({s \in Sessions : userID[s] = u}) = 1

\* on every transport, the text events of a participant with a single session are
\* in the order of their timestamps, which is the order its read loop took them in
StampOrdered ==
    \A c \in Sessions : \A i, j \in 1..Len(wire[c]) :
        (/\ i < j
         /\ wire[c][i].type = "text" /\ wire[c][j].type = "text"
         /\ wire[c][i].sender_id = wire[c][j].sender_id
         /\ SingleSession(wire[c][i].sender_id))
        => wire[c][i].created_at <= wire[c][j].created_at

(* C13: a session takes its next frame only after the event of the frame before *)
(* was written (it holds no frame when it decodes one); the forward of an event  *)
(* goes to the end of the receiver's transport and no step changes what a        *)
(* transport already received; so the events one session forwards to a transport *)
(* are there in the order its read loop processed them.                          *)
C13_ForwardFifo ==
    [][/\ \A s \in Sessions :
            /\ Decoding(s) => (msg[s] = NoFrame /\ msg'[s] # NoFrame /\ wire' = wire)
            /\ Dispatching(s) =>
                  /\ msg[s] # NoFrame /\ msg'[s] = NoFrame
                  /\ Registered(msg[s].ReceiverID) =>
                        LET c == ConnOf(msg[s].ReceiverID) IN
                        /\ Len(wire'[c]) > Len(wire[c])
                        /\ wire'[c][Len(wire[c]) + 1].sender_id = userID[s]
                        /\ wire'[c][Len(wire[c]) + 1].type =
                              (IF msg[s].Type = "" THEN "text" ELSE msg[s].Type)
       /\ \A c \in Sessions : SubSeq(wire'[c], 1, Len(wire[c])) = wire[c]
       /\ StampOrdered'
      ]_vars

\* witness of C13: the transport of b2 holds two text events of a1's session, in
\* the order of their timestamps
C13_Witness ==
    \E s, c \in Sessions : \E i, j \in 1..Len(wire[c]) :
        /\ s # c /\ userID[s] = "a1" /\ userID[c] = "b2" /\ pc[c] = "read"
        /\ i < j
        /\ wire[c][i].type = "text" /\ wire[c][i].sender_id = "a1"
        /\ wire[c][j].type = "text" /\ wire[c][j].sender_id = "a1"
        /\ wire[c][i].created_at < wire[c][j].created_at

\* the positions between the Append attempt of a frame and the dispatch of its event
Owing == {"file_lock", "file_cs", "text_lock", "text_cs"}

\* ev is the event of Stored Message m
EventOf(ev, m) ==
    /\ ev.type \in {"text"} \cup FileTypes
    /\ ev.type = m.Type
    /\ ObjectIDFromHex(ev.sender_id) = m.SenderID
    /\ ev.created_at = m.CreatedAt

\* every Stored Message was echoed on the transport of the session that stored it,
\* or that session is about to dispatch it
StoredIsEchoed ==
    \A k \in 1..Len(store) : \E s \in Sessions :
        /\ ObjectIDFromHex(userID[s]) = store[k].SenderID
        /\ \/ pc[s] \in Owing /\ newMsg[s] = store[k]
           \/ \E i \in 1..Len(wire[s]) : EventOf(wire[s][i], store[k])

(* C14: the step that attempts the Append of a frame writes to no transport and  *)
(* is the only step that changes the store; the event of the frame is written    *)
(* afterwards, in the dispatch, which is the only way on from the Append for a   *)
(* stored and for a failed message alike and always writes the echo; so every    *)
(* Stored Message is echoed to its sender or about to be.                        *)
C14_PersistThenForward ==
    [][/\ \A s \in Sessions :
            /\ Persisting(s) => (wire' = wire /\ pc'[s] \in {"file_lock", "text_lock"})
            /\ (pc[s] \in Owing /\ pc'[s] \notin Owing) =>
                  /\ TextDispatched(s) \/ FileDispatched(s)
                  /\ newMsg[s].CreatedAt \in 1..now
                  /\ store' = store
                  /\ Written(s) # <<>>
                  /\ Written(s)[Len(Written(s))] =
                        (IF TextDispatched(s) THEN TextOf(s) ELSE FileOf(s, newMsg[s].ID))
       /\ store' # store => \E s \in Sessions : Persisting(s)
       /\ StoredIsEchoed'
      ]_vars

\* witness of C14: a file message is stored with a timestamp, its sender's session
\* is back in its loop, and the last event on the sender's transport is the echo
\* with the id and the timestamp of the store
C14_Witness ==
    \E s \in Sessions :
        /\ pc[s] = "read" /\ Len(store) = 1 /\ store[1].Type = "file"
        /\ wire[s] # <<>>
        /\ EventOf(wire[s][Len(wire[s])], store[1])
        /\ wire[s][Len(wire[s])].id = store[1].ID
        /\ store[1].CreatedAt = now

\* the timestamps of the events of kinds that are persisted, on all transports
EventStamps ==
    UNION {{wire[c][i].created_at : i \in {k \in 1..Len(wire[c]) :
                wire[c][k].type \in {"text"} \cup FileTypes}} : c \in Sessions}

(* C15: the Append attempt reads the server clock and puts that reading, whatever *)
(* created_at the inbound frame carries, into the message it stores and into the  *)
(* message the event is built from; the forwarded and echoed events carry that   *)
(* reading; every timestamp in the store and on a transport is a clock reading.  *)
C15_ServerTimestamp ==
    [][/\ \A s \in Sessions :
            /\ Persisting(s) =>
                  /\ now' = now + 1
                  /\ newMsg'[s].CreatedAt = now'
                  /\ store' # store =>
                        (Len(store') = Len(store) + 1 /\ store'[Len(store')].CreatedAt = now')
            /\ (TextDispatched(s) \/ FileDispatched(s)) =>
                  \A c \in Sessions : \A i \in 1..Len(Written(c)) :
                      Written(c)[i].created_at = newMsg[s].CreatedAt
       /\ \A k \in 1..Len(store) : store'[k] = store[k]
       /\ (\A k \in 1..Len(store) : store[k].CreatedAt \in 1..now)'
       /\ (EventStamps \subseteq 1..now)'
      ]_vars

\* witness of C15: two frames were stored; the second, whose client filled in a
\* created_at of its own, has just been stored with the reading of the server clock,
\* later than the first
C15_Witness ==
    \E s \in Sessions :
        /\ pc[s] = "text_lock" /\ msg[s].CreatedAt = "2999-12-31T23:59:59Z"
        /\ Len(store) = 2 /\ store[2] = newMsg[s]
        /\ store[2].CreatedAt = now /\ store[1].CreatedAt < store[2].CreatedAt
        /\ \E c \in Sessions : \E i \in 1..Len(wire[c]) :
              wire[c][i].type = "text" /\ wire[c][i].created_at = store[1].CreatedAt

(* C16 (as stated): when the store fails during a history query, the endpoint    *)
(* answers with a failure.                                                       *)
C16_FailureSurfaced ==
    [][(Answering /\ resp'.storeErr) => resp'.status = 500]_vars

(* C17 (as stated): while some client's writes are stalled, every session whose  *)
(* own transport is not stalled still completes what it has begun: a             *)
(* registration with its online fan-out, a direct delivery, or its cleanup with  *)
(* the offline fan-out.                                                          *)
C17_NoIndefiniteBlocking ==
    \A s \in FramedSessions :
        (pc[s] \in Busy /\ s \notin stalled) ~> (pc[s] \notin Busy \/ s \in stalled)

(* C18 (as stated): no event is written to a transport by a handler that holds   *)
(* the registry lock.                                                            *)
C18_NoWriteUnderLock ==
    [][\A c \in Sessions : Written(c) # <<>> => mu = Free]_vars

\* the transports the write call(s) session s is at write to
Targets(s) ==
    CASE pc[s] \in {"on_cs", "off_cs"} -> {p[2] : p \in clients}
      [] pc[s] = "typing_cs" -> {p[2] : p \in {q \in clients : q[1] = msg[s].ReceiverID}}
      [] pc[s] \in {"file_cs", "text_cs"} ->
            {p[2] : p \in {q \in clients : q[1] = msg[s].ReceiverID}} \cup {s}
      [] OTHER -> {}

\* the positions in which a handler waits for the lock in order to write
WaitsToWrite == {"on_lock", "off_lock", "typing_lock", "file_lock", "text_lock"}

(* C19: at no time are two handlers at a write to the same transport (a forward, *)
(* an echo or a status fan-out, of a superseded session too), and every event a  *)
(* transport receives is written by the one handler that is at a write to it.    *)
C19_SingleWriter ==
    [][/\ \A c \in Sessions : Written(c) # <<>> =>
            \E s \in Sessions : c \in Targets(s) /\ pc'[s] # pc[s]
       /\ (\A c \in Sessions : Cardinality({s \in Sessions : c \in Targets(s)}) <= 1)'
      ]_vars

\* witness of C19: a session is at the forward of a text or file event to the
\* transport of another registered session, which itself waits to write its online
\* status to that same transport
C19_Witness ==
    \E s, r \in Sessions :
        /\ s # r /\ pc[s] \in {"text_cs", "file_cs"} /\ r \in Targets(s)
        /\ pc[r] = "on_lock" /\ <<userID[r], r>> \in clients

\* the positions in which a handler reads, ranges over or changes the registry
RegistryAccess ==
    {"reg_cs", "on_cs", "typing_cs", "file_cs", "text_cs", "cleanup_cs", "off_cs"}

(* C20: a handler is at an access of the registry (registration, deregistration, *)
(* lookup, fan-out iteration) only while it holds the lock, so no two are at one *)
(* at the same time; the registry changes, and events are written from lookups   *)
(* and fan-outs, only in steps of the lock's holder, which then releases it.     *)
C20_RegistryUnderLock ==
    [][/\ (\A s \in Sessions : pc[s] \in RegistryAccess => mu = s)'
       /\ (clients' # clients \/ online' # online \/ wire' # wire) =>
            /\ mu \in Sessions /\ pc[mu] \in RegistryAccess
            /\ pc'[mu] \notin RegistryAccess /\ mu' = Free
            /\ \A s \in Sessions \ {mu} : pc'[s] = pc[s]
      ]_vars

\* witness of C20: a handler is at its registration with the lock, while one
\* handler waits to look up a receiver and another registered one could not yet
\* start its fan-out
C20_Witness ==
    \E s, r \in Sessions :
        /\ s # r /\ pc[s] = "reg_cs" /\ mu = s
        /\ pc[r] \in {"typing_lock", "text_lock"}
        /\ <<userID[r], r>> \in clients

\* the ids of the documents of the collection
StoredIDs == {store[k].ID : k \in 1..Len(store)}

\* the step in which session s takes a file, image or audio frame
FileDecoded(s) == pc[s] = "read" /\ pc'[s] = "file_lock"

(* C21: a file, image or audio frame with a file URL makes the session attempt   *)
(* the Append of a message of that kind with the frame's URL and name; when the  *)
(* Append succeeds the message is in the store under a fresh id, and the         *)
(* dispatch writes one event with that id and the store's timestamp to the       *)
(* receiver's transport if the receiver is registered, and the identical event   *)
(* to the session's own transport.                                               *)
C21_FileEvent ==
    [][\A s \in Sessions :
        /\ FileDecoded(s) =>
              /\ msg'[s].Type \in FileTypes /\ msg'[s].FileURL # ""
              /\ newMsg'[s].Type = msg'[s].Type
              /\ newMsg'[s].FileURL = msg'[s].FileURL
              /\ newMsg'[s].FileName = msg'[s].FileName
              /\ newMsg'[s].ReceiverID = ObjectIDFromHex(msg'[s].ReceiverID)
              /\ store' # store =>
                    /\ store' = Append(store, newMsg'[s])
                    /\ newMsg'[s].ID \notin StoredIDs \cup {NoID}
        /\ (FileDispatched(s) /\ ~AppendFailed(s)) =>
              /\ \E k \in 1..Len(store) : store[k] = newMsg[s]
              /\ \A c \in Sessions :
                    Written(c) = Delivery(s, msg[s].ReceiverID, c,
                        [type |-> msg[s].Type, sender_id |-> userID[s],
                         receiver_id |-> msg[s].ReceiverID,
                         file_url |-> msg[s].FileURL, file_name |-> msg[s].FileName,
                         created_at |-> newMsg[s].CreatedAt, id |-> newMsg[s].ID])
      ]_vars

\* witness of C21: an image or audio message is stored, and the transport of its
\* registered receiver and the transport of its sender, another session, both end
\* with the same event, which carries the id and the timestamp of the store
C21_Witness ==
    \E s, r \in Sessions :
        /\ s # r /\ pc[s] = "read" /\ pc[r] = "read"
        /\ Len(store) = 1 /\ store[1].Type \in {"image", "audio"}
        /\ wire[s] # <<>> /\ wire[r] # <<>>
        /\ wire[s][Len(wire[s])] = wire[r][Len(wire[r])]
        /\ wire[r][Len(wire[r])].type = store[1].Type
        /\ wire[r][Len(wire[r])].id = store[1].ID
        /\ wire[r][Len(wire[r])].created_at = store[1].CreatedAt
        /\ wire[r][Len(wire[r])].receiver_id = userID[r]

(* C22 (as stated): the event a text (or kindless) frame is forwarded and echoed *)
(* as carries the text, the timestamp and the store-assigned id of the message.  *)
C22_TextEvent ==
    [][\A s \in Sessions : TextDispatched(s) =>
          \A c \in Sessions : \A i \in 1..Len(Written(c)) :
              /\ Written(c)[i].type = "text"
              /\ Written(c)[i].text = msg[s].Text
              /\ Written(c)[i].created_at = newMsg[s].CreatedAt
              /\ "id" \in DOMAIN Written(c)[i]
              /\ Written(c)[i].id = newMsg[s].ID
      ]_vars

\* the status event the fan-out step of session s writes
FanoutEvent(s) ==
    [type |-> "status", userId |-> userID[s],
     status |-> IF pc[s] = "on_cs" THEN "online" ELSE "offline"]

(* C23 (as amended): every status fan-out, online and offline, writes the status *)
(* event once to every transport that has a registry entry at that moment and to *)
(* no other; the originating session's own transport gets its online status      *)
(* exactly when the entry of its identity is still that transport, and never     *)
(* gets its offline status, the identity's entry being removed before the        *)
(* offline fan-out.                                                              *)
C23_StatusFanout ==
    [][\A s \in Sessions : (OnlineFanout(s) \/ OfflineFanout(s)) =>
        /\ \A c \in Sessions :
              Written(c) = IF \E p \in clients : p[2] = c THEN <<FanoutEvent(s)>> ELSE <<>>
        /\ OnlineFanout(s) => (Written(s) # <<>> <=> <<userID[s], s>> \in clients)
        /\ OfflineFanout(s) => Written(s) = <<>>
      ]_vars

(* C23 (original): the originating session's own transport receives the status   *)
(* of every fan-out of that session, online and offline.                         *)
C23_Original ==
    [][\A s \in Sessions : (OnlineFanout(s) \/ OfflineFanout(s)) => Written(s) # <<>>]_vars

\* witness of C23: a session is through its offline fan-out; its own transport
\* holds its online status and not its offline status, which the transport of
\* another, registered session received last
C23_Witness ==
    \E s, r \in Sessions :
        /\ s # r /\ pc[s] = "closing" /\ pc[r] = "read" /\ <<userID[r], r>> \in clients
        /\ Occurs([type |-> "status", userId |-> userID[s], status |-> "online"], wire[s])
        /\ ~Occurs([type |-> "status", userId |-> userID[s], status |-> "offline"], wire[s])
        /\ wire[r] # <<>>
        /\ wire[r][Len(wire[r])] = [type |-> "status", userId |-> userID[s], status |-> "offline"]

\* transport c is the value of a registry entry
InRegistry(c) == \E p \in clients : p[2] = c

(* C24: a registration replaces the entry of its identity by the new transport   *)
(* and does nothing else: the transport of the superseded session is not closed  *)
(* and that session stays where it is in its loop; a transport without an entry  *)
(* gets an entry only by its own session's registration, and is written to by no *)
(* lookup or fan-out, only by its own session's echo.                            *)
C24_Supersede ==
    [][\A s \in Sessions :
        /\ Registering(s) =>
              /\ clients' = {p \in clients : p[1] # userID[s]} \cup {<<userID[s], s>>}
              /\ closed' = closed
              /\ \A r \in Sessions \ {s} : pc'[r] = pc[r]
        /\ (~InRegistry(s) /\ InRegistry(s)') => Registering(s)
        /\ (~InRegistry(s) /\ Written(s) # <<>>) =>
              (pc[s] \in {"file_cs", "text_cs"} /\ pc'[s] = "read" /\ Len(Written(s)) = 1)
      ]_vars

\* witness of C24: of two sessions of one participant the second holds the entry;
\* the first, superseded and not closed, has read a typing frame for its own
\* identity and is at the forward, which goes to the second's transport
C24_Witness ==
    /\ userID[1] = userID[2] /\ clients = {<<userID[2], 2>>}
    /\ pc[1] = "typing_cs" /\ pc[2] = "read" /\ closed = {}
    /\ msg[1].ReceiverID = userID[1]
    /\ Targets(1) = {2}

(* C25 (as stated): the deregistration of a terminating session removes no       *)
(* registry entry but the one that session installed.                            *)
C25_OwnEntryOnly ==
    [][\A s \in Sessions : Deregistering(s) =>
          \A p \in clients \ clients' : p = <<userID[s], s>>]_vars

\* the step in which the request of session s is accepted
Accepted(s) == pc[s] = "start" /\ pc'[s] = "reg_lock"

(* C26: the identity of a session is the one its token verifies to and never     *)
(* changes; the sender of every message the session stores or attempts to store  *)
(* and of every typing, text and file event it forwards or echoes is that        *)
(* identity, whatever sender_id the inbound frame carries.                       *)
C26_SenderAuthentic ==
    [][\A s \in Sessions :
        /\ Accepted(s) =>
              (~ValidateToken(token'[s]).err /\ userID'[s] = ValidateToken(token'[s]).UserID)
        /\ ~Accepted(s) => userID'[s] = userID[s]
        /\ Persisting(s) =>
              /\ newMsg'[s].SenderID = ObjectIDFromHex(userID[s])
              /\ store' # store => store'[Len(store')].SenderID = ObjectIDFromHex(userID[s])
        /\ Dispatching(s) =>
              \A c \in Sessions : \A i \in 1..Len(Written(c)) :
                  Written(c)[i].sender_id = userID[s]
      ]_vars

\* witness of C26: every frame of the model names a1 as its sender; a session
\* authenticated as b2 sent one to a1, and the message stored and the event on the
\* transport of a1 both name b2
C26_Witness ==
    \E s, r \in Sessions :
        /\ userID[s] = "b2" /\ userID[r] = "a1" /\ pc[s] = "read" /\ pc[r] = "read"
        /\ \A f \in Frames : f.SenderID = "a1"
        /\ Len(store) = 1 /\ store[1].SenderID = ObjectIDFromHex("b2")
        /\ wire[r] # <<>>
        /\ wire[r][Len(wire[r])].type \in {"text"} \cup FileTypes
        /\ wire[r][Len(wire[r])].sender_id = "b2"
        /\ ~Occurs([type |-> "status", userId |-> "b2", status |-> "offline"], wire[r])

\* the positions between a change of the registry and the end of its fan-out
FanoutPending == {"on_lock", "on_cs", "off_lock", "off_cs"}

\* the status events about participant u in a sequence of events
StatusAbout(seq, u) == SelectSeq(seq, LAMBDA e : e.type = "status" /\ e.userId = u)

(* C27 (as stated): when no status fan-out is pending, the last status event     *)
(* about a participant that a registered observer's transport received is        *)
(* online if the participant has a registry entry and offline if it has none.    *)
C27_StatusAgrees ==
    (\A s \in Sessions : pc[s] \notin FanoutPending) =>
        \A p \in clients : \A u \in Users :
            LET about == StatusAbout(wire[p[2]], u) IN
            about # <<>> =>
                (about[Len(about)].status = "online" <=> Registered(u))

(* ---------------------------------------------------------------------- *)
(* Fair scheduling                                                         *)
(* ---------------------------------------------------------------------- *)
\* one frame for each branch of the read loop that takes the lock
FairFrames ==
    {Frame("typing", "b2", "", "", "", TRUE),
     Frame("text", "b2", "hi", "", "", FALSE),
     Frame("file", "b2", "", "/uploads/f.png", "f.png", FALSE)}

\* the clientsMu.Lock() calls of handler s
Acquire(s) ==
    \/ RegisterLock(s)
    \/ OnlineLock(s)
    \/ TypingLock(s)
    \/ FileLock(s)
    \/ TextLock(s)
    \/ CleanupLock(s)
    \/ OfflineLock(s)

\* the system with clients that send frames and read what they are sent
NextFair ==
    \E s \in FramedSessions :
        \/ HandshakeReject(s)
        \/ HandshakeUpgradeFail(s)
        \/ HandshakeAccept(s)
        \/ RegisterLock(s)
        \/ Register(s)
        \/ OnlineLock(s)
        \/ OnlineBroadcast(s)
        \/ ReadError(s)
        \/ nread < MaxEvents /\ ReadTyping(s) /\ msg'[s] \in FairFrames
        \/ TypingLock(s)
        \/ TypingForward(s)
        \/ nread < MaxEvents /\ ReadFile(s) /\ msg'[s] \in FairFrames
        \/ FileLock(s)
        \/ FileDispatch(s)
        \/ nread < MaxEvents /\ ReadText(s) /\ msg'[s] \in FairFrames
        \/ TextLock(s)
        \/ TextDispatch(s)
        \/ CleanupLock(s)
        \/ Deregister(s)
        \/ OfflineLock(s)
        \/ OfflineBroadcast(s)
        \/ Close(s)

\* every goroutine that can run is run, and a goroutine blocked in Lock() is not
\* passed over for ever (sync.Mutex hands the lock to a waiter that starves)
SpecFair ==
    /\ Init /\ [][NextFair]_vars
    /\ \A s \in FramedSessions : WF_vars(Handler(s)) /\ SF_vars(Acquire(s))

\* the positions in which a handler is blocked in clientsMu.Lock()
LockWaiting ==
    {"reg_lock", "on_lock", "typing_lock", "file_lock", "text_lock", "cleanup_lock", "off_lock"}

\* the positions between a clientsMu.Lock() and its Unlock()
LockHolding == {"reg_cs", "on_cs", "typing_cs", "file_cs", "text_cs", "cleanup_cs", "off_cs"}

(* C28: a handler holds the registry lock exactly in its critical sections, so   *)
(* it never calls Lock() while it holds the lock; a Lock() returns only when the *)
(* lock is free; every step that leaves a critical section (register, fan-out,   *)
(* typing, file, text, cleanup) releases the lock; and with every write          *)
(* returning and fair scheduling, every handler waiting for the lock gets it.    *)
C28_NoDeadlock ==
    /\ [](\A s \in Sessions : mu = s <=> pc[s] \in LockHolding)
    /\ [][\A s \in Sessions :
            /\ (mu' = s /\ mu # s) => (mu = Free /\ pc[s] \in LockWaiting)
            /\ (pc[s] \in LockHolding /\ pc'[s] # pc[s]) => (mu = s /\ mu' = Free)
         ]_vars
    /\ \A s \in FramedSessions : (pc[s] \in LockWaiting) ~> (mu = s)

\* witness of C28: a handler with a typing frame waits for the lock while the
\* offline fan-out of the other handler holds it
C28_Witness ==
    /\ pc[1] = "typing_lock" /\ pc[2] = "off_cs" /\ mu = 2
    /\ stalled = {}

\* the frames one of the branches of the read loop handles
Handled(f) ==
    \/ f.Type = "typing"
    \/ f.Type \in FileTypes /\ f.FileURL # ""
    \/ f.Type = "" \/ f.Type = "text"

\* the step in which a read loop takes a frame and stays at its ReadJSON
Dropping == nread' # nread /\ pc' = pc

\* the step in which session s ends a status fan-out
FanningOut(s) == pc[s] \in {"on_cs", "off_cs"} /\ pc'[s] # pc[s]

(* C29: a frame that no branch handles (kind status, an unknown kind, a file     *)
(* kind without a URL) is dropped: the step that takes it changes neither the    *)
(* store nor any transport nor the registry nor the lock, and every session      *)
(* stays where it is; only a handled frame enters a branch; and a status event   *)
(* is written only by the fan-out of a session, about that session's identity.   *)
C29_UnhandledDropped ==
    [][/\ Dropping =>
            /\ store' = store /\ wire' = wire /\ closed' = closed
            /\ clients' = clients /\ online' = online /\ mu' = mu
            /\ msg' = msg /\ newMsg' = newMsg
       /\ \A s \in Sessions :
            /\ Decoding(s) => Handled(msg'[s])
            /\ (nread' # nread /\ pc'[s] # pc[s]) => Decoding(s)
       /\ \A c \in Sessions : \A i \in 1..Len(Written(c)) :
            Written(c)[i].type = "status" =>
                \E s \in Sessions : FanningOut(s) /\ Written(c)[i].userId = userID[s]
      ]_vars

\* witness of C29: the only session, of b2, took two frames; the first left no
\* trace (a typing or text frame would have put an event on the session's own
\* transport), the second is a text frame that is stored and about to be echoed
C29_Witness ==
    /\ userID[1] = "b2" /\ pc[1] = "text_lock" /\ pc[2] = "start"
    /\ nread = 2 /\ Len(store) = 1
    /\ wire[1] = <<StatusEvent("b2", "online")>>
    /\ \E f \in Frames : ~Handled(f) /\ f.Type = "status"

(* C30 (as stated): a text, file, image or audio frame appends at most one       *)
(* message to the store, and its event is written at most once to any one        *)
(* transport, also when the receiver is the sender's own identity.               *)
C30_AtMostOnce ==
    [][\A s \in Sessions :
        /\ Persisting(s) => Len(store') <= Len(store) + 1
        /\ (TextDispatched(s) \/ FileDispatched(s)) =>
              \A c \in Sessions : Len(Written(c)) <= 1
      ]_vars

====
